---- MODULE Spec2Model ----
(***************************************************************************)
(* A model of git-workspace (src/src/main.rs): the command layer           *)
(* (handle_main), lock, the batch engine map_repositories with the         *)
(* commands built on it, and the archive detector and executor.            *)
(*                                                                         *)
(* The file system is a tree of directories and regular files under the   *)
(* canonical workspace path; symbolic links are not represented.  A path   *)
(* is the sequence of its components.                                      *)
(***************************************************************************)
EXTENDS Naturals, Integers, Sequences, FiniteSets, TLC

VARIABLES
    cmd,          \* the sub command of this invocation (Command)
    pc,           \* position of handle_main inside the sub command
    force,        \* Archive { force }
    answer,       \* what utils::confirm returned: "none", "yes" or "no"
    run,          \* number of the current invocation of the program
    exit,         \* result of handle_main: "none", "ok" or "err"
    providers,    \* per configured source, the repositories it returns
    fetched,      \* per source, the state of its fetch_repositories call
    lockfile,     \* content of workspace-lock.toml
    written,      \* Lockfile::write was called in this run
    repositories, \* the Vec<Repository> read from the lockfile
    dirs,         \* directories that exist
    vcs,          \* directories d for which d/.git is a directory
    files,        \* regular files that exist
    start,        \* dirs, vcs and files as the current run found them
    planned,      \* get_all_repositories_to_archive has returned Ok
    plan,         \* repos_to_archive: what it returned
    walk,         \* how the loop over WalkDir ended, and its to_archive then
    cursor,       \* index of the next entry of the loop of archive_repositories
    attempts,     \* relocations attempted in this run, with their outcome
    printed,      \* lines printed by the archive preview
    history,      \* per finished run: its plan and attempts
    threads,      \* --threads
    attended,     \* console::user_attended()
    hung,         \* elements of the batch on which f never returns
    pool,         \* the thread pool: "none", "built" or "failed"
    counter,      \* RelaxedCounter
    batch,        \* the slice handed to map_repositories
    chunks,       \* the parts of the slice that are folded sequentially
    tasks,        \* per element of batch: the position of its closure
    log,          \* "Starting"/"Finished" lines in the order of emission
    errors,       \* the Vec<(&Repository, anyhow::Error)> collected
    mapResult     \* what map_repositories returned: "none", "ok" or "err"

vars == <<cmd, pc, force, answer, run, exit, providers, fetched, lockfile,
          written, repositories, dirs, vcs, files, start, planned, plan, walk,
          cursor, attempts, printed, history, threads, attended, hung, pool,
          counter, batch, chunks, tasks, log, errors, mapResult>>

cmdVars   == <<cmd, force, threads, attended, hung, providers>>
fsVars    == <<dirs, vcs, files>>
lockVars  == <<fetched, lockfile, written>>
archVars  == <<planned, plan, walk, cursor, attempts, printed, answer>>
batchVars == <<pool, counter, batch, chunks, tasks, log, errors, mapResult>>

----------------------------------------------------------------------------
(* Bounds of the model *)

MaxRuns == 2        \* invocations of the program in a row
MaxThreads == 2     \* largest --threads value tried
MaxProvided == 3    \* repositories returned by the providers in the lock model

----------------------------------------------------------------------------
(* Paths *)

Range(s) == {s[i] : i \in 1..Len(s)}

Workspace == <<"w">>

IsPrefix(a, b) == Len(a) <= Len(b) /\ SubSeq(b, 1, Len(a)) = a

IsProperPrefix(a, b) == Len(a) < Len(b) /\ IsPrefix(a, b)

Parent(p) == SubSeq(p, 1, Len(p) - 1)

Join(base, rel) == base \o rel

\* Path::strip_prefix: the remainder of path after base
strip_prefix(path, base) == SubSeq(path, Len(base) + 1, Len(path))

\* Order of the path components: byte order of the names used
NameRank(n) ==
    CASE n = ".archive" -> 0
      [] n = "a" -> 1
      [] n = "b" -> 2
      [] n = "n" -> 3
      [] n = "w" -> 4
      [] n = "x" -> 5
      [] n = "y" -> 6
      [] OTHER -> 7

RECURSIVE PathLess(_, _)
PathLess(p, q) ==
    IF p = <<>> THEN q # <<>>
    ELSE IF q = <<>> THEN FALSE
    ELSE IF Head(p) = Head(q) THEN PathLess(Tail(p), Tail(q))
    ELSE NameRank(Head(p)) < NameRank(Head(q))

----------------------------------------------------------------------------
(* Repository (repository.rs is not part of the sources at hand: its       *)
(* operations follow the data model and section 4.1 of the specification)  *)

\* A Repository: full_path is relative to the workspace; upstream and
\* branch tell whether the optional fields are present.
Repo(path, url, up, br) ==
    [full_path |-> path, url |-> url, upstream |-> up, branch |-> br]

\* Repository::get_path: the path joined to the workspace
get_path(r) == Join(Workspace, r.full_path)

\* Repository::exists, evaluated in a tree whose VCS directories are V
ExistsIn(r, V) == get_path(r) \in V

\* Repository::name
name(r) == r.full_path

\* Ord and PartialEq of Repository: by full_path
RepoLess(a, b) == PathLess(a.full_path, b.full_path)

RepoEq(a, b) == a.full_path = b.full_path

----------------------------------------------------------------------------
(* lock: flatten, sort, dedup *)

RECURSIVE flatten(_)
flatten(results) ==
    IF results = <<>> THEN <<>> ELSE Head(results) \o flatten(Tail(results))

\* Where slice::sort puts x among the sorted s: after every element that
\* is not greater (the sort is stable)
RECURSIVE InsertSorted(_, _)
InsertSorted(x, s) ==
    IF s = <<>> THEN <<x>>
    ELSE IF RepoLess(x, Head(s)) THEN <<x>> \o s
    ELSE <<Head(s)>> \o InsertSorted(x, Tail(s))

RECURSIVE sort(_)
sort(s) ==
    IF s = <<>> THEN <<>>
    ELSE InsertSorted(s[Len(s)], sort(SubSeq(s, 1, Len(s) - 1)))

\* Vec::dedup: of each run of equal neighbours the first one is kept
RECURSIVE dedup(_)
dedup(s) ==
    IF Len(s) <= 1 THEN s
    ELSE IF RepoEq(s[2], s[1]) THEN dedup(<<s[1]>> \o Tail(Tail(s)))
    ELSE <<s[1]>> \o dedup(Tail(s))

\* What lock hands to Lockfile::write for the results of the sources
all_repositories(results) == dedup(sort(flatten(results)))

----------------------------------------------------------------------------
(* The file system *)

archive_directory == Join(Workspace, <<".archive">>)

Prefixes(p) == {SubSeq(p, 1, k) : k \in 1..Len(p)}

\* Nothing lives in directory d
IsEmptyDir(d, D, V, F) ==
    /\ d \notin V
    /\ \A p \in D \cup F : Parent(p) # d

\* fs_extra::dir::create_all(p, false): fails when a component is a file
CreateAllOk(p, F) == Prefixes(p) \cap F = {}

CreateAll(p, D) == D \cup Prefixes(p)

\* std::fs::rename of directory from to to: the parent of to must be a
\* directory, to must not lie inside from, and to must be absent or an
\* empty directory
RenameOk(from, to, D, V, F) ==
    /\ from \in D
    /\ ~IsPrefix(from, to)
    /\ Parent(to) \in D
    /\ to \notin F
    /\ to \in D => IsEmptyDir(to, D, V, F)

\* The paths of S after the subtree at from has become the subtree at to
Moved(S, from, to) ==
    {IF IsPrefix(from, p) THEN Join(to, strip_prefix(p, from)) ELSE p : p \in S}

----------------------------------------------------------------------------
(* get_all_repositories_to_archive *)

\* repository_paths without the insertion of the archive directory
repository_paths_unguarded(repos, V) ==
    {get_path(repos[i]) : i \in {j \in 1..Len(repos) : ExistsIn(repos[j], V)}}

\* repository_paths: the declared repositories that exist, and the archive
repository_paths(repos, V) ==
    {get_path(repos[i]) : i \in {j \in 1..Len(repos) : ExistsIn(repos[j], V)}}
        \cup {archive_directory}

Children(p, D) == {q \in D : Len(q) = Len(p) + 1 /\ Parent(q) = p}

\* The entries of a directory in the order the walk yields them (taken
\* to be the order of their names)
RECURSIVE InOrder(_)
InOrder(S) ==
    IF S = {} THEN <<>>
    ELSE LET m == CHOOSE x \in S : \A y \in S \ {x} : PathLess(x, y)
         IN  <<m>> \o InOrder(S \ {m})

\* What the loop over WalkDir has pushed to to_archive, and whether the
\* iterator yielded an error
Walked(found, err) == [found |-> found, err |-> err]

\* The loop over WalkDir from entry p on.  A protected entry is skipped
\* with its content; an entry holding .git is recorded and skipped with its
\* content; any other directory is entered, and the iterator yields an
\* error when it cannot read it (the directories of U).
RECURSIVE WalkEntry(_, _, _, _, _)
RECURSIVE WalkAll(_, _, _, _, _)

\* The loop without skip_current_dir after an entry was recorded
WalkEntryNoSkip(p, protected, D, V, U) ==
    IF p \in protected THEN Walked(<<>>, FALSE)
    ELSE LET here == IF p \in V
                     THEN << <<p, Join(archive_directory,
                                      strip_prefix(p, Workspace))>> >>
                     ELSE <<>>
             below == WalkAll(InOrder(Children(p, D)), protected, D, V, U)
         IN  IF p \in U THEN Walked(here, TRUE)
             ELSE Walked(here \o below.found, below.err)

WalkEntry(p, protected, D, V, U) ==
    IF p \in protected THEN Walked(<<>>, FALSE)
    ELSE IF p \in V
         THEN Walked(<< <<p, Join(archive_directory,
                                  strip_prefix(p, Workspace))>> >>, FALSE)
    ELSE IF p \in U THEN Walked(<<>>, TRUE)
    ELSE WalkAll(InOrder(Children(p, D)), protected, D, V, U)

\* The entries of one directory, one after the other; the first error ends
\* the loop
WalkAll(entries, protected, D, V, U) ==
    IF entries = <<>> THEN Walked(<<>>, FALSE)
    ELSE LET first == WalkEntry(Head(entries), protected, D, V, U)
         IN  IF first.err THEN first
             ELSE LET rest == WalkAll(Tail(entries), protected, D, V, U)
                  IN  Walked(first.found \o rest.found, rest.err)

to_archive(repos, D, V, U) ==
    WalkEntry(Workspace, repository_paths(repos, V), D, V, U)

\* The directories the walk may be unable to read: none, or any one
\* directory (the loop ends at the first error, so that one stands for the
\* first unreadable directory the walk enters).  The directories that hold
\* .git and those of the archive are left out: the loop skips them before
\* the iterator reads them.
Unreadable(D, V) ==
    {{}} \cup {{d} : d \in {e \in D \ V : ~IsPrefix(archive_directory, e)}}

\* get_all_repositories_to_archive returning to_archive whatever the
\* iterator yielded
WalkResultPartial(w) == [ok |-> TRUE, plan |-> w.found]

\* What get_all_repositories_to_archive returns: the error of the
\* iterator, or to_archive once the iterator is exhausted
WalkResult(w) == [ok |-> ~w.err, plan |-> IF w.err THEN <<>> ELSE w.found]

NoWalk == [done |-> FALSE, err |-> FALSE, found |-> <<>>]

----------------------------------------------------------------------------
(* handle_main: lock *)

\* lock, up to the configuration: all_config_files and Config::read.  No
\* configuration file, or an unreadable one, ends the command with an error.
LoadConfig ==
    /\ pc = "lock"
    /\ \E ok \in BOOLEAN :
          IF ok
          THEN /\ pc' = "fetching"
               /\ fetched' = [i \in 1..Len(providers) |-> "pending"]
               /\ exit' = exit
          ELSE /\ pc' = "done"
               /\ exit' = "err"
               /\ fetched' = fetched
    /\ UNCHANGED <<cmdVars, fsVars, archVars, batchVars, run, lockfile,
                   written, repositories, history, start>>

\* One source's fetch_repositories returns, with repositories or an error
FetchSource(i) ==
    /\ pc = "fetching"
    /\ fetched[i] = "pending"
    /\ \E outcome \in {"ok", "err"} : fetched' = [fetched EXCEPT ![i] = outcome]
    /\ UNCHANGED <<cmdVars, fsVars, archVars, batchVars, run, pc, exit,
                   lockfile, written, repositories, history, start>>

\* collect::<anyhow::Result<Vec<_>>>() finding no error at all
SourcesFailedNever(f) == FALSE

\* collect::<anyhow::Result<Vec<_>>>()?: the error of a source is the
\* error of lock
SourcesFailed(f) == \E i \in 1..Len(f) : f[i] = "err"

\* The rest of lock: collect the results; sort, dedup and write them unless
\* a source failed
LockWrite ==
    /\ pc = "fetching"
    /\ \A i \in 1..Len(providers) : fetched[i] # "pending"
    /\ IF SourcesFailed(fetched)
       THEN /\ pc' = "done"
            /\ exit' = "err"
            /\ UNCHANGED <<lockfile, written>>
       ELSE /\ lockfile' = all_repositories(providers)
            /\ written' = TRUE
            /\ pc' = IF cmd = "lock" THEN "done" ELSE "read"
            /\ exit' = IF cmd = "lock" THEN "ok" ELSE exit
    /\ UNCHANGED <<cmdVars, fsVars, archVars, batchVars, run, fetched,
                   repositories, history, start>>

\* The elements of s that exist in a tree whose VCS directories are V
RECURSIVE Existing(_, _)
Existing(s, V) ==
    IF s = <<>> THEN <<>>
    ELSE (IF ExistsIn(Head(s), V) THEN <<Head(s)>> ELSE <<>>)
             \o Existing(Tail(s), V)

\* execute_cmd handing the whole lockfile to map_repositories
BatchOfUnfiltered(c, repos, V) ==
    IF c \in {"fetch", "run", "update", "pull"} THEN repos ELSE <<>>

\* The repositories a command hands to map_repositories: execute_cmd
\* (fetch and run) keeps the existing ones, update and switch-and-pull
\* pass the lockfile's content on
BatchOf(c, repos, V) ==
    IF c \in {"fetch", "run"} THEN Existing(repos, V)
    ELSE IF c \in {"update", "pull"} THEN repos
    ELSE <<>>

\* Lockfile::read, in archive, update, switch-and-pull, execute_cmd and
\* list, with the filter of execute_cmd; list prints what it read and ends
ReadLockfile ==
    /\ pc = "read"
    /\ repositories' = lockfile
    /\ batch' = BatchOf(cmd, lockfile, vcs)
    /\ pc' = IF cmd = "archive" THEN "plan"
             ELSE IF cmd = "list" THEN "done"
             ELSE "pool"
    /\ exit' = IF cmd = "list" THEN "ok" ELSE exit
    /\ UNCHANGED <<cmdVars, fsVars, lockVars, archVars, run, history, start,
                   pool, counter, chunks, tasks, log, errors, mapResult>>

----------------------------------------------------------------------------
(* handle_main: archive *)

\* get_all_repositories_to_archive called by archive: the archive
\* directory is created when missing, then the tree is walked; an error of
\* the walk ends the command
ComputePlan ==
    /\ pc = "plan"
    /\ cmd = "archive"
    /\ LET D1 == IF archive_directory \in dirs \cup files
                 THEN dirs ELSE dirs \cup {archive_directory}
       IN  \E U \in Unreadable(D1, vcs) :
              LET w == to_archive(repositories, D1, vcs, U)
                  res == WalkResult(w)
              IN  /\ dirs' = D1
                  /\ walk' = [done |-> TRUE, err |-> w.err, found |-> w.found]
                  /\ plan' = res.plan
                  /\ planned' = res.ok
                  /\ IF ~res.ok THEN pc' = "done" /\ exit' = "err"
                     ELSE IF ~force THEN pc' = "preview" /\ exit' = exit
                     ELSE IF res.plan # <<>> THEN pc' = "relocate" /\ exit' = exit
                     ELSE pc' = "done" /\ exit' = "ok"
    /\ UNCHANGED <<cmdVars, lockVars, batchVars, run, repositories, vcs,
                   files, cursor, attempts, printed, answer, history, start>>

\* The lines of the preview: one per entry, then the count
PreviewLines(p) ==
    [i \in 1..Len(p) |-> <<"Move", strip_prefix(p[i][1], Workspace),
                             strip_prefix(p[i][2], Workspace)>>]
        \o << <<"Will archive", Len(p)>> >>

\* Without --force: the preview is printed; an empty plan ends the command
Preview ==
    /\ pc = "preview"
    /\ printed' = printed \o PreviewLines(plan)
    /\ IF plan = <<>> THEN pc' = "done" /\ exit' = "ok"
       ELSE pc' = "confirm" /\ exit' = exit
    /\ UNCHANGED <<cmdVars, fsVars, lockVars, batchVars, run, repositories,
                   planned, plan, walk, cursor, attempts, answer, history,
                   start>>

\* archive going on to archive_repositories whatever the answer
AfterConfirmAny(yes) == "relocate"

\* Where archive goes on after utils::confirm answered: only a yes leads
\* to archive_repositories
AfterConfirm(yes) == IF yes THEN "relocate" ELSE "done"

\* utils::confirm("Proceed?"): a refusal ends the command
Confirm ==
    /\ pc = "confirm"
    /\ \E yes \in BOOLEAN :
          /\ answer' = IF yes THEN "yes" ELSE "no"
          /\ pc' = AfterConfirm(yes)
          /\ exit' = IF pc' = "done" THEN "ok" ELSE exit
    /\ UNCHANGED <<cmdVars, fsVars, lockVars, batchVars, run, repositories,
                   planned, plan, walk, cursor, attempts, printed, history,
                   start>>

\* What one pass of the loop of archive_repositories does with entry e:
\* "aborted" when the parent of the destination cannot be created (the
\* function returns the error), else "moved" or "failed" as rename says
RelocateOutcome(e, D, V, F) ==
    IF ~CreateAllOk(Parent(e[2]), F) THEN "aborted"
    ELSE IF RenameOk(e[1], e[2], CreateAll(Parent(e[2]), D), V, F) THEN "moved"
    ELSE "failed"

\* The loop left by the error of rename too
AfterPassStrict(outcome, i, n) ==
    IF outcome \in {"aborted", "failed"} \/ i = n THEN "done" ELSE "relocate"

\* Where the loop goes on after pass i of n: the error of create_all
\* leaves the function, the error of rename does not
AfterPass(outcome, i, n) ==
    IF outcome = "aborted" \/ i = n THEN "done" ELSE "relocate"

\* What archive_repositories prints to stdout in pass i: the number of
\* entries when it is entered, and a line for the entry once it is moved
RelocateLines(i, e, outcome, n) ==
    (IF i = 1 THEN << <<"Archiving", n>> >> ELSE <<>>)
        \o (IF outcome = "moved" THEN << <<"Moved", e[1], e[2]>> >> ELSE <<>>)

\* One pass of the loop of archive_repositories (the first pass with the
\* entry of the function)
Relocate ==
    /\ pc = "relocate"
    /\ cursor <= Len(plan)
    /\ LET e == plan[cursor]
           outcome == RelocateOutcome(e, dirs, vcs, files)
           D1 == CreateAll(Parent(e[2]), dirs)
       IN  /\ attempts' = Append(attempts,
                              [from |-> e[1], to |-> e[2], outcome |-> outcome])
           /\ printed' = printed \o RelocateLines(cursor, e, outcome, Len(plan))
           /\ pc' = AfterPass(outcome, cursor, Len(plan))
           /\ exit' = IF outcome = "aborted" THEN "err"
                      ELSE IF pc' = "done" THEN "ok" ELSE exit
           /\ CASE outcome = "aborted" ->
                     UNCHANGED <<dirs, vcs, files, cursor>>
                [] outcome = "moved" ->
                     /\ dirs' = Moved(D1, e[1], e[2])
                     /\ vcs' = Moved(vcs, e[1], e[2])
                     /\ files' = Moved(files, e[1], e[2])
                     /\ cursor' = cursor + 1
                [] outcome = "failed" ->
                     /\ dirs' = D1
                     /\ UNCHANGED <<vcs, files>>
                     /\ cursor' = cursor + 1
    /\ UNCHANGED <<cmdVars, lockVars, batchVars, run, repositories, planned,
                   plan, walk, answer, history, start>>

----------------------------------------------------------------------------
(* The closures handed to map_repositories.  An external call (clone,     *)
(* set_upstream, switch_to_primary_branch, execute_cmd) succeeds or fails *)
(* as its environment decides: o1 and o2 are the outcomes of the first    *)
(* and of the second call a closure makes.                                *)

Call(op, ok) == [op |-> op, ok |-> ok]

\* update without the test of Repository::exists
update_closure_always(r, existed, o1, o2) ==
    IF o1 THEN <<Call("clone", TRUE), Call("set_upstream", o2)>>
    ELSE <<Call("clone", FALSE)>>

\* The closure of update: the calls it makes on r
update_closure(r, existed, o1, o2) ==
    IF existed THEN <<>>
    ELSE IF o1 THEN <<Call("clone", TRUE), Call("set_upstream", o2)>>
    ELSE <<Call("clone", FALSE)>>

\* pull_args naming the upstream remote whenever one is declared
pull_args_upstream(r) ==
    IF r.upstream THEN "pull upstream branch" ELSE "pull"

\* pull_args
pull_args(r) ==
    IF r.upstream /\ r.branch THEN "pull upstream branch" ELSE "pull"

\* The closure of pull_all_repositories
pull_closure(r, existed, o1, o2) ==
    IF o1 THEN <<Call("switch_to_primary_branch", TRUE), Call(pull_args(r), o2)>>
    ELSE <<Call("switch_to_primary_branch", FALSE)>>

\* The closure of execute_cmd, for fetch and for run
execute_closure(c, r, o1) == <<Call(c, o1)>>

Closure(c, r, existed, o1, o2) ==
    CASE c = "update" -> update_closure(r, existed, o1, o2)
      [] c = "pull" -> pull_closure(r, existed, o1, o2)
      [] OTHER -> execute_closure(c, r, o1)

\* What a closure returns after those calls: Ok, or the error of the call
\* that failed, which tells the repository it was made in
NoError == [ok |-> TRUE, failed |-> "", at |-> <<>>]

ResultOf(r, calls) ==
    IF \A k \in 1..Len(calls) : calls[k].ok THEN NoError
    ELSE [ok |-> FALSE, failed |-> calls[Len(calls)].op, at |-> r.full_path]

----------------------------------------------------------------------------
(* map_repositories *)

NewTask ==
    [pc |-> "queued", idx |-> 0, runs |-> 0, existed |-> FALSE,
     calls |-> <<>>, res |-> NoError]

InProgress == {i \in 1..Len(tasks) : tasks[i].pc \in {"counted", "invoked", "returned"}}

\* The workers that may take a job another worker has pushed: there is
\* none in a pool of one thread
Stealable(t) == IF t >= 2 THEN BOOLEAN ELSE {FALSE}

\* bridge_producer_consumer of par_iter on the slice lo..hi: the ways the
\* slice ends up cut into parts that one worker folds element after
\* element.  A job is halved while it has splits left (there are as many as
\* threads at the start, and half as many after each cut); a job taken by
\* another worker than the one that pushed it (migrated) is halved anyway
\* and has at least as many splits as threads again.  The left half runs
\* on the worker that cut, the right half is pushed for any worker.
RECURSIVE Leaves(_, _, _, _, _)
Leaves(lo, hi, splits, migrated, t) ==
    LET len == hi - lo + 1
        try_split == len \div 2 >= 1 /\ (migrated \/ splits > 0)
        halved == splits \div 2
        left == IF migrated /\ t > halved THEN t ELSE halved
        mid == lo + (len \div 2) - 1
    IN  IF ~try_split THEN {{<<lo, hi>>}}
        ELSE {L \cup R :
                L \in Leaves(lo, mid, left, FALSE, t),
                R \in UNION {Leaves(mid + 1, hi, left, m, t) :
                                m \in Stealable(t)}}

\* The parts a slice of n elements may be cut into in a pool of t threads
Splittings(n, t) == Leaves(1, n, t, FALSE, t)

\* Element i is next in its part: it is the first of the part, or the
\* worker folding the part is done with the element before it
ChunkReady(i) ==
    \A c \in chunks : (c[1] < i /\ i <= c[2]) => tasks[i - 1].pc = "done"

\* A pool that starts a thread whenever a job is pushed
SlotAlwaysFree == TRUE

\* A worker is idle: the pool has threads workers, and each runs the
\* closure of one element at a time
SlotFree == Cardinality(InProgress) < threads

\* ThreadPoolBuilder::build: the batch starts unless the pool cannot be
\* built, and then map_repositories returns the error
BuildPool ==
    /\ pc = "pool"
    /\ \E built \in BOOLEAN :
          IF built
          THEN /\ pool' = "built"
               /\ tasks' = [i \in 1..Len(batch) |-> NewTask]
               /\ chunks' \in Splittings(Len(batch), threads)
               /\ pc' = "running"
               /\ UNCHANGED <<mapResult, exit>>
          ELSE /\ pool' = "failed"
               /\ mapResult' = "err"
               /\ pc' = "done"
               /\ exit' = "err"
               /\ UNCHANGED <<tasks, chunks>>
    /\ UNCHANGED <<cmdVars, fsVars, lockVars, archVars, run, repositories,
                   history, start, counter, batch, log, errors>>

\* A worker of the pool takes element i: its progress bar is added and
\* counter.inc() hands out the number of the element
Take(i) ==
    /\ pc = "running"
    /\ tasks[i].pc = "queued"
    /\ SlotFree
    /\ ChunkReady(i)
    /\ tasks' = [tasks EXCEPT ![i].pc = "counted", ![i].idx = counter]
    /\ counter' = counter + 1
    /\ UNCHANGED <<cmdVars, fsVars, lockVars, archVars, run, pc, exit,
                   repositories, history, start, pool, batch, chunks, log,
                   errors, mapResult>>

\* The line a worker prints before and after f, when no tty is attached
Line(what, i) == <<what, tasks[i].idx, Len(batch), name(batch[i])>>

\* The "Finished" line left out when f returned an error
EmitOnSuccess(what, i) ==
    IF attended \/ (what = "Finished" /\ ~tasks[i].res.ok) THEN log
    ELSE Append(log, Line(what, i))

\* println! under `if !is_attended`
Emit(what, i) == IF attended THEN log ELSE Append(log, Line(what, i))

\* The worker prints "Starting" and calls f
Start(i) ==
    /\ pc = "running"
    /\ tasks[i].pc = "counted"
    /\ log' = Emit("Starting", i)
    /\ tasks' = [tasks EXCEPT ![i].pc = "invoked", ![i].runs = @ + 1]
    /\ UNCHANGED <<cmdVars, fsVars, lockVars, archVars, run, pc, exit,
                   repositories, history, start, pool, counter, batch, chunks,
                   errors, mapResult>>

\* f runs on element i and returns, unless the external command hangs.  A
\* clone that succeeds leaves the repository on disk.
RunF(i) ==
    /\ pc = "running"
    /\ tasks[i].pc = "invoked"
    /\ i \notin hung
    /\ LET r == batch[i]
           existed == ExistsIn(r, vcs)
       IN  \E calls \in {Closure(cmd, r, existed, o1, o2) : o1, o2 \in BOOLEAN} :
              LET cloned == \E k \in 1..Len(calls) :
                                calls[k].op = "clone" /\ calls[k].ok
              IN  /\ tasks' = [tasks EXCEPT ![i].pc = "returned",
                                            ![i].existed = existed,
                                            ![i].calls = calls,
                                            ![i].res = ResultOf(r, calls)]
                  /\ dirs' = IF cloned THEN CreateAll(get_path(r), dirs)
                             ELSE dirs
                  /\ vcs' = IF cloned THEN vcs \cup {get_path(r)} ELSE vcs
    /\ UNCHANGED <<cmdVars, lockVars, archVars, run, pc, exit, repositories,
                   history, start, files, pool, counter, batch, chunks, log,
                   errors, mapResult>>

\* The worker prints "Finished", clears the bar and yields the result
Finish(i) ==
    /\ pc = "running"
    /\ tasks[i].pc = "returned"
    /\ log' = Emit("Finished", i)
    /\ tasks' = [tasks EXCEPT ![i].pc = "done"]
    /\ UNCHANGED <<cmdVars, fsVars, lockVars, archVars, run, pc, exit,
                   repositories, history, start, pool, counter, batch, chunks,
                   errors, mapResult>>

\* filter_map(Result::err).collect(): the failures, each with the
\* repository of its element, in the order of the slice
RECURSIVE ErrorsUpTo(_, _, _)
ErrorsUpTo(n, b, t) ==
    IF n = 0 THEN <<>>
    ELSE ErrorsUpTo(n - 1, b, t)
             \o (IF t[n].res.ok THEN <<>> ELSE << <<b[n], t[n].res>> >>)

ErrorsOf(b, t) == ErrorsUpTo(Len(b), b, t)

\* The parallel iterator returning as soon as one element has failed
BatchCompleteOrFailed(t) ==
    \/ \A i \in 1..Len(t) : t[i].pc = "done"
    \/ \E i \in 1..Len(t) : t[i].pc = "done" /\ ~t[i].res.ok

\* The parallel iterator has returned: every element went through the map
BatchComplete(t) == \A i \in 1..Len(t) : t[i].pc = "done"

\* map_repositories returning Err when the report is not empty
MapReturnStrict(errs) == IF errs = <<>> THEN "ok" ELSE "err"

\* What map_repositories returns after the report
MapReturn(errs) == "ok"

\* The end of map_repositories: the failures are collected and printed,
\* Ok(()) is returned; update goes on to count the orphans
Collect ==
    /\ pc = "running"
    /\ BatchComplete(tasks)
    /\ errors' = ErrorsOf(batch, tasks)
    /\ mapResult' = MapReturn(errors')
    /\ IF mapResult' = "err" THEN pc' = "done" /\ exit' = "err"
       ELSE IF cmd = "update" THEN pc' = "count" /\ exit' = exit
       ELSE pc' = "done" /\ exit' = "ok"
    /\ UNCHANGED <<cmdVars, fsVars, lockVars, archVars, run, repositories,
                   history, start, pool, counter, batch, chunks, tasks, log>>

\* The end of update: get_all_repositories_to_archive counts what could be
\* archived
CountArchivable ==
    /\ pc = "count"
    /\ LET D1 == IF archive_directory \in dirs \cup files
                 THEN dirs ELSE dirs \cup {archive_directory}
       IN  \E U \in Unreadable(D1, vcs) :
              LET w == to_archive(repositories, D1, vcs, U)
                  res == WalkResult(w)
              IN  /\ dirs' = D1
                  /\ walk' = [done |-> TRUE, err |-> w.err, found |-> w.found]
                  /\ plan' = res.plan
                  /\ planned' = res.ok
                  /\ exit' = IF res.ok THEN "ok" ELSE "err"
    /\ pc' = "done"
    /\ UNCHANGED <<cmdVars, lockVars, batchVars, run, repositories, vcs,
                   files, cursor, attempts, printed, answer, history, start>>

----------------------------------------------------------------------------
(* The program is run again *)

NoBatch ==
    /\ pool = "none"
    /\ counter = 1
    /\ batch = <<>>
    /\ chunks = {}
    /\ tasks = <<>>
    /\ log = <<>>
    /\ errors = <<>>
    /\ mapResult = "none"

ResetBatch ==
    /\ pool' = "none"
    /\ counter' = 1
    /\ batch' = <<>>
    /\ chunks' = {}
    /\ tasks' = <<>>
    /\ log' = <<>>
    /\ errors' = <<>>
    /\ mapResult' = "none"

\* handle_main calling lock before fetch too
FirstPcFetchLocks(c) ==
    IF c \in {"update", "lock", "archive", "fetch"} THEN "lock" ELSE "read"

\* Where handle_main starts: update, lock and archive call lock first, the
\* other commands go to the lockfile at once
FirstPc(c) == IF c \in {"update", "lock", "archive"} THEN "lock" ELSE "read"

\* A finished invocation is followed by another one with the same
\* arguments; the file system and the lockfile are what the last one left
Restart ==
    /\ pc = "done"
    /\ run < MaxRuns
    /\ run' = run + 1
    /\ history' = Append(history, [force |-> force, planned |-> planned,
                                   plan |-> plan, attempts |-> attempts,
                                   exit |-> exit])
    /\ pc' = FirstPc(cmd)
    /\ exit' = "none"
    /\ answer' = "none"
    /\ fetched' = [i \in 1..Len(providers) |-> "pending"]
    /\ repositories' = <<>>
    /\ planned' = FALSE
    /\ plan' = <<>>
    /\ walk' = NoWalk
    /\ cursor' = 1
    /\ attempts' = <<>>
    /\ printed' = <<>>
    /\ ResetBatch
    /\ written' = FALSE
    /\ start' = [dirs |-> dirs, vcs |-> vcs, files |-> files,
                 lockfile |-> lockfile]
    /\ UNCHANGED <<cmdVars, fsVars, lockfile>>

----------------------------------------------------------------------------
(* The archive command *)

\* The elements of sequence s whose index is in S, in the order of s
RECURSIVE Pick(_, _)
Pick(s, S) ==
    IF s = <<>> THEN <<>>
    ELSE Pick(SubSeq(s, 1, Len(s) - 1), S)
             \o (IF Len(s) \in S THEN <<s[Len(s)]>> ELSE <<>>)

\* Directories the workspace may hold at the start
TreeCandidates ==
    {Join(Workspace, p) : p \in {<<"a">>, <<"a", "b">>, <<"a", "b", "n">>,
                                 <<"x">>, <<"x", "y">>}}

Trees ==
    {T \in SUBSET TreeCandidates :
        \A p \in T : Parent(p) = Workspace \/ Parent(p) \in T}

\* What the archive directory may hold at the start: nothing (it may not
\* exist yet), empty directories, a regular file, an archived repository
ArchiveMenu ==
    LET A(p) == Join(archive_directory, p)
    IN  { [dirs |-> {}, vcs |-> {}, files |-> {}],
          [dirs |-> {archive_directory}, vcs |-> {}, files |-> {}],
          [dirs |-> {archive_directory, A(<<"a">>), A(<<"a", "b">>)},
           vcs |-> {}, files |-> {}],
          [dirs |-> {archive_directory}, vcs |-> {}, files |-> {A(<<"a">>)}],
          [dirs |-> {archive_directory, A(<<"x">>), A(<<"x", "y">>)},
           vcs |-> {A(<<"x", "y">>)}, files |-> {}] }

\* Repositories the providers may declare
Declarable ==
    << Repo(<<"x", "y">>, "u1", TRUE, TRUE),
       Repo(<<"a", "b", "n">>, "u1", FALSE, FALSE),
       Repo(<<"a", "b">>, "u1", TRUE, FALSE) >>

InitArchive ==
    /\ cmd = "archive"
    /\ pc = "lock"
    /\ force \in BOOLEAN
    /\ answer = "none"
    /\ run = 1
    /\ exit = "none"
    /\ \E S \in SUBSET (1..Len(Declarable)) : providers = <<Pick(Declarable, S)>>
    /\ fetched = [i \in 1..Len(providers) |-> "pending"]
    /\ lockfile = <<>>
    /\ written = FALSE
    /\ repositories = <<>>
    /\ \E T \in Trees, A \in ArchiveMenu :
          /\ dirs = {Workspace} \cup T \cup A.dirs
          /\ \E V \in SUBSET (T \cup {Workspace}) : vcs = V \cup A.vcs
          /\ files = A.files
    /\ start = [dirs |-> dirs, vcs |-> vcs, files |-> files,
                lockfile |-> lockfile]
    /\ planned = FALSE
    /\ plan = <<>>
    /\ walk = NoWalk
    /\ cursor = 1
    /\ attempts = <<>>
    /\ printed = <<>>
    /\ history = <<>>
    /\ threads = 1
    /\ attended = TRUE
    /\ hung = {}
    /\ NoBatch

NextArchive ==
    \/ LoadConfig
    \/ \E i \in 1..Len(providers) : FetchSource(i)
    \/ LockWrite
    \/ ReadLockfile
    \/ ComputePlan
    \/ Preview
    \/ Confirm
    \/ Relocate
    \/ Restart

SpecArchive == InitArchive /\ [][NextArchive]_vars

----------------------------------------------------------------------------
(* The batch commands: update, switch-and-pull, fetch, run *)

\* The lockfile declares any of the repositories of Declarable, of which
\* any may be on disk (all or none of them for switch-and-pull, whose
\* closure does not look at the disk); update finds the orphan x to count.
\* The pool has one thread or the most threads tried.
InitBatch ==
    /\ cmd \in {"update", "pull", "fetch", "run"}
    /\ pc = FirstPc(cmd)
    /\ force = FALSE
    /\ answer = "none"
    /\ run = 1
    /\ exit = "none"
    /\ \E S \in SUBSET (1..Len(Declarable)) : providers = <<Pick(Declarable, S)>>
    /\ fetched = [i \in 1..Len(providers) |-> "pending"]
    /\ lockfile = all_repositories(providers)
    /\ written = FALSE
    /\ repositories = <<>>
    /\ \E E \in SUBSET {get_path(r) : r \in Range(lockfile)},
          O \in SUBSET {Join(Workspace, <<"x">>)} :
          /\ O = {} <=> cmd # "update"
          /\ cmd = "pull" => E \in {{}, {get_path(r) : r \in Range(lockfile)}}
          /\ vcs = E \cup O
          /\ dirs = {Workspace} \cup UNION {Prefixes(p) : p \in E \cup O}
    /\ files = {}
    /\ start = [dirs |-> dirs, vcs |-> vcs, files |-> files,
                lockfile |-> lockfile]
    /\ planned = FALSE
    /\ plan = <<>>
    /\ walk = NoWalk
    /\ cursor = 1
    /\ attempts = <<>>
    /\ printed = <<>>
    /\ history = <<>>
    /\ threads \in {1, MaxThreads}
    /\ attended \in BOOLEAN
    /\ hung = {}
    /\ NoBatch

NextBatch ==
    \/ LoadConfig
    \/ \E i \in 1..Len(providers) : FetchSource(i)
    \/ LockWrite
    \/ ReadLockfile
    \/ BuildPool
    \/ \E i \in 1..Len(tasks) : Take(i)
    \/ \E i \in 1..Len(tasks) : Start(i)
    \/ \E i \in 1..Len(tasks) : RunF(i)
    \/ \E i \in 1..Len(tasks) : Finish(i)
    \/ Collect
    \/ CountArchivable

SpecBatch == InitBatch /\ [][NextBatch]_vars

----------------------------------------------------------------------------
(* A batch in which an external command may hang *)

\* The repositories of the lockfile: all of them are on disk
HangRepos ==
    [k \in 1..5 |->
        Repo(<< <<"a", "b", "n", "x", "y">>[k] >>, "u1", FALSE, FALSE)]

\* fetch on a pool of at least two threads; the command hangs in none or in
\* one of the repositories
InitHang ==
    /\ cmd = "fetch"
    /\ pc = FirstPc(cmd)
    /\ force = FALSE
    /\ answer = "none"
    /\ run = 1
    /\ exit = "none"
    /\ providers = <<HangRepos>>
    /\ fetched = [i \in 1..Len(providers) |-> "pending"]
    /\ lockfile = all_repositories(providers)
    /\ written = FALSE
    /\ repositories = <<>>
    /\ vcs = {get_path(r) : r \in Range(lockfile)}
    /\ dirs = {Workspace} \cup vcs
    /\ files = {}
    /\ start = [dirs |-> dirs, vcs |-> vcs, files |-> files,
                lockfile |-> lockfile]
    /\ planned = FALSE
    /\ plan = <<>>
    /\ walk = NoWalk
    /\ cursor = 1
    /\ attempts = <<>>
    /\ printed = <<>>
    /\ history = <<>>
    /\ threads \in 2..MaxThreads
    /\ attended = TRUE
    /\ hung \in {{}} \cup {{i} : i \in 1..Len(lockfile)}
    /\ NoBatch

NextHang ==
    \/ ReadLockfile
    \/ BuildPool
    \/ \E i \in 1..Len(tasks) : Take(i)
    \/ \E i \in 1..Len(tasks) : Start(i)
    \/ \E i \in 1..Len(tasks) : RunF(i)
    \/ \E i \in 1..Len(tasks) : Finish(i)
    \/ Collect

\* The workers are scheduled fairly: a step that stays possible is taken
SpecHang == InitHang /\ [][NextHang]_vars /\ WF_vars(NextHang)

----------------------------------------------------------------------------
(* Every command that goes to the lockfile *)

Commands == {"list", "lock", "update", "archive", "fetch", "run", "pull"}

\* Any command, run on a workspace whose lockfile is empty or up to date,
\* in which some of the declared repositories are cloned and which may hold
\* the orphan x
InitCommands ==
    /\ cmd \in Commands
    /\ pc = FirstPc(cmd)
    /\ force \in (IF cmd = "archive" THEN BOOLEAN ELSE {FALSE})
    /\ answer = "none"
    /\ run = 1
    /\ exit = "none"
    /\ \E S \in SUBSET (1..2) : providers = <<Pick(Declarable, S)>>
    /\ fetched = [i \in 1..Len(providers) |-> "pending"]
    /\ lockfile \in {<<>>, all_repositories(providers)}
    /\ written = FALSE
    /\ repositories = <<>>
    /\ \E E \in SUBSET {get_path(r) : r \in Range(providers[1])},
          O \in SUBSET {Join(Workspace, <<"x">>)} :
          /\ vcs = E \cup O
          /\ dirs = {Workspace} \cup UNION {Prefixes(p) : p \in E \cup O}
    /\ files = {}
    /\ start = [dirs |-> dirs, vcs |-> vcs, files |-> files,
                lockfile |-> lockfile]
    /\ planned = FALSE
    /\ plan = <<>>
    /\ walk = NoWalk
    /\ cursor = 1
    /\ attempts = <<>>
    /\ printed = <<>>
    /\ history = <<>>
    /\ threads \in 1..MaxThreads
    /\ attended = TRUE
    /\ hung = {}
    /\ NoBatch

NextCommands ==
    \/ LoadConfig
    \/ \E i \in 1..Len(providers) : FetchSource(i)
    \/ LockWrite
    \/ ReadLockfile
    \/ ComputePlan
    \/ Preview
    \/ Confirm
    \/ Relocate
    \/ BuildPool
    \/ \E i \in 1..Len(tasks) : Take(i)
    \/ \E i \in 1..Len(tasks) : Start(i)
    \/ \E i \in 1..Len(tasks) : RunF(i)
    \/ \E i \in 1..Len(tasks) : Finish(i)
    \/ Collect
    \/ CountArchivable
    \/ Restart

SpecCommands == InitCommands /\ [][NextCommands]_vars

----------------------------------------------------------------------------
(* The lock command *)

\* Repositories the sources may return: two paths, each under two URLs
Returnable ==
    {Repo(p, u, FALSE, FALSE) : p \in {<<"a">>, <<"a", "b">>}, u \in {"u1", "u2"}}

SeqsUpTo(S, n) == UNION {[1..k -> S] : k \in 0..n}

\* Two sources return up to MaxProvided repositories between them, in any
\* order and with any repetition
InitLock ==
    /\ cmd = "lock"
    /\ pc = "lock"
    /\ force = FALSE
    /\ answer = "none"
    /\ run = 1
    /\ exit = "none"
    /\ \E flat \in SeqsUpTo(Returnable, MaxProvided), k \in 0..MaxProvided :
          /\ k <= Len(flat)
          /\ providers = <<SubSeq(flat, 1, k), SubSeq(flat, k + 1, Len(flat))>>
    /\ fetched = [i \in 1..Len(providers) |-> "pending"]
    /\ lockfile = <<>>
    /\ written = FALSE
    /\ repositories = <<>>
    /\ dirs = {Workspace}
    /\ vcs = {}
    /\ files = {}
    /\ start = [dirs |-> dirs, vcs |-> vcs, files |-> files,
                lockfile |-> lockfile]
    /\ planned = FALSE
    /\ plan = <<>>
    /\ walk = NoWalk
    /\ cursor = 1
    /\ attempts = <<>>
    /\ printed = <<>>
    /\ history = <<>>
    /\ threads = 1
    /\ attended = TRUE
    /\ hung = {}
    /\ NoBatch

NextLock ==
    \/ LoadConfig
    \/ \E i \in 1..Len(providers) : FetchSource(i)
    \/ LockWrite

SpecLock == InitLock /\ [][NextLock]_vars

----------------------------------------------------------------------------
(* Properties of the archive command *)

\* A plan has been computed and nothing of it was executed yet
PlanFresh == planned /\ attempts = <<>>

Ancestors(d) == {SubSeq(d, 1, k) : k \in 1..(Len(d) - 1)}

\* The directories the detector is to report: they hold VCS metadata, are
\* not protected, and no directory above them in the workspace is
\* protected or holds VCS metadata
Orphans ==
    LET protected == repository_paths(repositories, vcs)
    IN  {d \in vcs :
            /\ d \notin protected
            /\ \A a \in Ancestors(d) : a \notin protected /\ a \notin vcs}

\* The tree of the example: x/y declared and existing, a/b an orphan with
\* the nested VCS directory a/b/n
ExampleTree ==
    /\ \E i \in 1..Len(repositories) : repositories[i].full_path = <<"x", "y">>
    /\ \A i \in 1..Len(repositories) : repositories[i].full_path # <<"a", "b">>
    /\ {<<"w", "x", "y">>, <<"w", "a", "b">>, <<"w", "a", "b", "n">>} \subseteq vcs
    /\ vcs \cap {<<"w">>, <<"w", "a">>, <<"w", "x">>} = {}

\* C3: a freshly computed plan holds exactly one entry
\* (d -> archive/relative(d)) per directory d that holds VCS metadata, is
\* not protected and has no protected or VCS ancestor; in the example tree
\* the plan is the single entry a/b -> .archive/a/b.
C3_ArchivePruning ==
    PlanFresh =>
        /\ Range(plan) =
              {<<d, Join(archive_directory, strip_prefix(d, Workspace))>> :
                  d \in Orphans}
        /\ Len(plan) = Cardinality(Orphans)
        /\ ExampleTree =>
              plan = << <<(<<"w", "a", "b">>), <<"w", ".archive", "a", "b">>>> >>

C3_Witness == PlanFresh /\ ExampleTree /\ Len(plan) = 1

\* Every entry of the plan of record h was moved
AllMoved(h) ==
    /\ h.planned
    /\ Len(h.attempts) = Len(h.plan)
    /\ \A i \in 1..Len(h.attempts) : h.attempts[i].outcome = "moved"

ThisRun ==
    [force |-> force, planned |-> planned, plan |-> plan,
     attempts |-> attempts, exit |-> exit]

\* C4: when archive --force has moved every entry of its plan, no orphan
\* is left at its source and each is at its destination in the archive,
\* and the next archive --force computes an empty plan and moves nothing.
C4_ArchiveIdempotent ==
    /\ (force /\ pc = "done" /\ AllMoved(ThisRun)) =>
          \A i \in 1..Len(plan) : plan[i][1] \notin dirs /\ plan[i][2] \in dirs
    /\ (force /\ run > 1 /\ AllMoved(history[run - 1]) /\ planned) =>
          plan = <<>> /\ attempts = <<>>

C4_Witness ==
    /\ force /\ run = 2 /\ planned /\ pc = "done"
    /\ AllMoved(history[1])
    /\ Len(history[1].plan) = 2

\* C6: a relocation is attempted only with --force or after the
\* confirmation was answered yes; without --force, a refusal or an empty
\* plan ends the command with the tree as it was found (but for the
\* archive directory the detector creates).
C6_ConfirmationGating ==
    /\ attempts # <<>> => (force \/ answer = "yes")
    /\ (~force /\ pc = "done" /\ planned /\ (answer = "no" \/ plan = <<>>)) =>
          /\ attempts = <<>>
          /\ dirs = start.dirs \cup {archive_directory}
          /\ vcs = start.vcs
          /\ files = start.files

C6_Witness ==
    ~force /\ pc = "done" /\ planned /\ answer = "no" /\ plan # <<>>

\* C10 as claimed: once archive_repositories has started, every entry of
\* the plan is attempted, whatever happened to the entries before it.
C10_EveryEntryAttempted ==
    (pc = "done" /\ attempts # <<>>) => Len(attempts) = Len(plan)

\* C10 amended: a failed rename is recorded for its entry and the loop goes
\* on with the next entry; the loop ends early only when the parent of a
\* destination cannot be created, and that entry is the last one attempted.
C10_RenameFailureDoesNotAbort ==
    /\ \A i \in 1..Len(attempts) :
          /\ attempts[i].from = plan[i][1] /\ attempts[i].to = plan[i][2]
          /\ attempts[i].outcome = "aborted" => i = Len(attempts)
    /\ pc = "relocate" => cursor = Len(attempts) + 1
    /\ (pc = "done" /\ attempts # <<>>) =>
          \/ Len(attempts) = Len(plan)
          \/ attempts[Len(attempts)].outcome = "aborted"

C10_Witness ==
    /\ pc = "done"
    /\ Len(plan) = 2 /\ Len(attempts) = 2
    /\ attempts[1].outcome = "failed"
    /\ attempts[2].outcome = "moved"

\* C11: when the walk yields an error, get_all_repositories_to_archive
\* returns the error and no plan, whatever the loop had recorded before,
\* and the archive command ends with that error without attempting any
\* relocation: the tree is as the run found it (but for the archive
\* directory, created before the walk).
C11_WalkErrorAborts ==
    walk.err =>
        /\ ~planned /\ plan = <<>>
        /\ pc = "done" /\ exit = "err"
        /\ attempts = <<>> /\ printed = <<>>
        /\ cmd = "archive" =>
              /\ vcs = start.vcs /\ files = start.files
              /\ start.dirs \subseteq dirs
              /\ dirs \subseteq start.dirs \cup {archive_directory}

C11_Witness ==
    /\ cmd = "archive" /\ force
    /\ walk.err /\ walk.found # <<>>
    /\ pc = "done"

\* C16 as claimed: whenever archive has computed its plan, with --force
\* or without, the preview (one line per entry, then the count) is what it
\* prints first, before a relocation is attempted.
C16_PreviewAlwaysPrinted ==
    (cmd = "archive" /\ planned /\ (attempts # <<>> \/ pc = "done")) =>
        /\ Len(printed) >= Len(plan) + 1
        /\ SubSeq(printed, 1, Len(plan) + 1) = PreviewLines(plan)

\* The declared repositories that were on disk when the run started
DeclaredOnDisk ==
    {get_path(repositories[i]) :
        i \in {j \in 1..Len(repositories) : ExistsIn(repositories[j], start.vcs)}}

\* C20 as claimed: no entry of the plan has for source a declared
\* repository that is on disk or a directory above one, and whatever of the
\* plan is executed, every declared repository that was on disk is still
\* at its path.
C20_DeclaredNeverRelocated ==
    (cmd = "archive" /\ planned) =>
        /\ \A k \in 1..Len(plan) : \A d \in DeclaredOnDisk :
              ~IsPrefix(plan[k][1], d)
        /\ DeclaredOnDisk \subseteq vcs

\* C21 as claimed: whatever the workspace tree, the root holding .git
\* included, every entry of the plan has a source that is a proper
\* descendant of the workspace root and lies outside the archive, a
\* destination that is a proper descendant of the archive directory and is
\* the archive directory joined with the source's path relative to the
\* workspace, and no source is an ancestor of another source.
C21_PlanWellFormed ==
    planned =>
        \A k \in 1..Len(plan) :
            /\ IsProperPrefix(Workspace, plan[k][1])
            /\ ~IsPrefix(archive_directory, plan[k][1])
            /\ IsProperPrefix(archive_directory, plan[k][2])
            /\ plan[k][2] = Join(archive_directory,
                                 strip_prefix(plan[k][1], Workspace))
            /\ \A m \in 1..Len(plan) :
                  ~IsProperPrefix(plan[k][1], plan[m][1])

----------------------------------------------------------------------------
(* Properties of map_repositories and of the batch commands *)

Failed == {i \in 1..Len(tasks) : ~tasks[i].res.ok}

\* C1: f is invoked at most once on an element, and when map_repositories
\* has returned it was invoked exactly once on each of the N elements; the
\* report then holds exactly one entry per failed invocation, pairing the
\* error with the repository it was produced in.
C1_BatchNonAbort ==
    /\ \A i \in 1..Len(tasks) : tasks[i].runs <= 1
    /\ mapResult = "ok" =>
          /\ Len(tasks) = Len(batch)
          /\ \A i \in 1..Len(batch) : tasks[i].runs = 1 /\ tasks[i].pc = "done"
          /\ Len(errors) = Cardinality(Failed)
          /\ Range(errors) = {<<batch[i], tasks[i].res>> : i \in Failed}
          /\ \A k \in 1..Len(errors) : errors[k][2].at = errors[k][1].full_path

C1_Witness ==
    /\ mapResult = "ok"
    /\ Len(batch) = 3
    /\ Len(errors) = 1
    /\ tasks[1].idx = 3 /\ ~tasks[1].res.ok

\* The counter values of the "Starting" lines, in the order of emission
RECURSIVE StartingIdx(_)
StartingIdx(l) ==
    IF l = <<>> THEN <<>>
    ELSE (IF Head(l)[1] = "Starting" THEN <<Head(l)[2]>> ELSE <<>>)
             \o StartingIdx(Tail(l))

\* C2 as claimed: the counter values of the "Starting" lines, read in the
\* order of emission, are 1, 2, ..., N.
C2_CounterMonotonic ==
    LET seen == StartingIdx(log)
    IN  /\ \A k \in 1..Len(seen) : seen[k] = k
        /\ (mapResult = "ok" /\ ~attended) => Len(seen) = Len(batch)

\* C7 as claimed: switch-and-pull calls switch_to_primary_branch on a
\* declared repository iff it exists on disk, and a declared repository
\* that is absent yields no failure entry.
C7_PullOnlyExisting ==
    (cmd = "pull" /\ mapResult = "ok") =>
        /\ \A i \in 1..Len(repositories) :
              (\E j \in 1..Len(batch) :
                    batch[j] = repositories[i] /\ tasks[j].calls # <<>>)
                 <=> ExistsIn(repositories[i], start.vcs)
        /\ \A k \in 1..Len(errors) : ExistsIn(errors[k][1], start.vcs)

Ops(i) == {tasks[i].calls[k].op : k \in 1..Len(tasks[i].calls)}

Ran(i) == tasks[i].pc \in {"returned", "done"}

C9_FailsOnlyOnPool ==
    /\ mapResult = "err" <=> pool = "failed"
    /\ pool = "failed" =>
          /\ tasks = <<>> /\ errors = <<>> /\ log = <<>>
          /\ pc = "done" /\ exit = "err"
    /\ (pool = "built" /\ pc \in {"count", "done"}) => mapResult = "ok"
    /\ (pool = "built" /\ pc = "done") =>
          exit = IF walk.err THEN "err" ELSE "ok"

C9_Witness ==
    /\ pool = "built" /\ pc = "done" /\ exit = "ok"
    /\ Len(batch) = 3
    /\ Len(errors) = 3

\* The elements on which f is running
Invoked == {i \in 1..Len(tasks) : tasks[i].pc = "invoked"}

\* C13: with a thread limit of N, at most N invocations of f are in
\* progress at any time, however many repositories the batch holds: no
\* more than N elements are in the hands of a worker, so no more than N are
\* inside f.
C13_BoundedParallelism ==
    /\ Invoked \subseteq InProgress
    /\ Cardinality(InProgress) <= threads
    /\ Cardinality(Invoked) <= threads

C13_Witness ==
    /\ Len(batch) > threads
    /\ Cardinality(Invoked) = threads
    /\ threads = MaxThreads
    /\ \E i \in 1..Len(tasks) : tasks[i].pc = "queued" /\ ChunkReady(i)

\* The elements of the batch that are repository r
ElementsOf(r) == {j \in 1..Len(batch) : batch[j] = r}

\* C15: fetch and run hand to map_repositories the declared repositories
\* that are on disk when the lockfile is read, in the order of the
\* lockfile; when the batch is over the command was executed exactly once
\* in each of them, and never in a declared repository that is absent.
C15_ExecuteOnlyExisting ==
    (cmd \in {"fetch", "run"} /\ pool # "none") =>
        /\ batch = Existing(repositories, start.vcs)
        /\ \A i \in 1..Len(repositories) :
              Cardinality(ElementsOf(repositories[i])) =
                 IF ExistsIn(repositories[i], start.vcs) THEN 1 ELSE 0
        /\ \A j \in 1..Len(tasks) :
              /\ ExistsIn(batch[j], start.vcs)
              /\ tasks[j].calls # <<>> =>
                    /\ Len(tasks[j].calls) = 1
                    /\ tasks[j].calls[1].op = cmd
                    /\ tasks[j].runs = 1
        /\ mapResult = "ok" =>
              \A j \in 1..Len(tasks) : Len(tasks[j].calls) = 1

C15_Witness ==
    /\ cmd = "run" /\ mapResult = "ok"
    /\ Len(repositories) = 3 /\ Len(batch) = 2
    /\ ~ExistsIn(repositories[2], start.vcs)
    /\ ~tasks[2].res.ok

\* The positions in the log of the lines of kind what for element i
LinesOf(what, i) ==
    {k \in 1..Len(log) : log[k][1] = what /\ log[k][4] = name(batch[i])}

\* C17: with no terminal attached, each element of the batch gets one
\* "Starting" line, there before f is invoked on it, and one "Finished"
\* line, there only after f has returned (with Ok or with an error) and
\* after the Starting line; both carry the number counter.inc() gave to the
\* element, the size of the batch and the name of the repository, and no
\* two elements have the same number.  With a terminal attached no such
\* line is printed.
C17_StepOrder ==
    /\ attended => log = <<>>
    /\ ~attended =>
          /\ \A i \in 1..Len(tasks) :
                LET S == LinesOf("Starting", i)
                    F == LinesOf("Finished", i)
                IN  /\ Cardinality(S) =
                          IF tasks[i].pc \in {"invoked", "returned", "done"}
                          THEN 1 ELSE 0
                    /\ Cardinality(F) = IF tasks[i].pc = "done" THEN 1 ELSE 0
                    /\ tasks[i].runs = 1 <=> S # {}
                    /\ \A k \in S \cup F :
                          log[k][2] = tasks[i].idx /\ log[k][3] = Len(batch)
                    /\ \A k \in S, l \in F : k < l
          /\ \A k \in 1..Len(log) :
                \E i \in 1..Len(tasks) : log[k][4] = name(batch[i])
          /\ mapResult = "ok" => Len(log) = 2 * Len(batch)
    /\ \A i, j \in 1..Len(tasks) :
          (i # j /\ tasks[i].idx # 0 /\ tasks[j].idx # 0) =>
              tasks[i].idx # tasks[j].idx

C17_Witness ==
    /\ ~attended /\ threads = 2 /\ mapResult = "ok"
    /\ Len(batch) = 3 /\ Len(log) = 6
    /\ ~tasks[2].res.ok /\ tasks[3].res.ok
    /\ log[1][4] = name(batch[2]) /\ log[2][4] = name(batch[3])
    /\ log[3][1] = "Finished" /\ log[3][4] = name(batch[3])

\* C18: in switch-and-pull the first call on a repository is
\* switch_to_primary_branch; when it fails the closure returns its error
\* and pulls nothing; when it succeeds one pull follows, which is
\* `pull upstream <branch>` iff the repository declares both an upstream
\* and a branch, and a plain `pull` otherwise.
C18_PullAfterSwitch ==
    /\ \A up, br \in BOOLEAN :
          pull_args(Repo(<<"a">>, "u1", up, br)) =
             IF up /\ br THEN "pull upstream branch" ELSE "pull"
    /\ cmd = "pull" =>
          \A i \in 1..Len(tasks) :
             LET c == tasks[i].calls
             IN  /\ Ran(i) => Len(c) >= 1
                 /\ c # <<>> =>
                       /\ c[1].op = "switch_to_primary_branch"
                       /\ ~c[1].ok =>
                             /\ Len(c) = 1
                             /\ tasks[i].res =
                                   [ok |-> FALSE,
                                    failed |-> "switch_to_primary_branch",
                                    at |-> batch[i].full_path]
                       /\ c[1].ok =>
                             /\ Len(c) = 2
                             /\ c[2].op =
                                   IF batch[i].upstream /\ batch[i].branch
                                   THEN "pull upstream branch" ELSE "pull"
                             /\ tasks[i].res.ok = c[2].ok

C18_Witness ==
    /\ cmd = "pull" /\ mapResult = "ok"
    /\ Len(batch) = 3 /\ Len(errors) = 1
    /\ batch[1].upstream /\ ~batch[1].branch
    /\ tasks[1].calls = <<Call("switch_to_primary_branch", TRUE),
                          Call("pull", TRUE)>>
    /\ tasks[2].calls = <<Call("switch_to_primary_branch", FALSE)>>
    /\ tasks[3].calls = <<Call("switch_to_primary_branch", TRUE),
                          Call("pull upstream branch", TRUE)>>

\* C12 as claimed: in a batch on at least two threads in which f never
\* returns on one element, f is eventually started and completed on every
\* other element.
C12_HungBlocksOnlyOwnWorker ==
    (Cardinality(hung) = 1 /\ pool = "built" /\ threads >= 2)
        ~> (\A i \in 1..Len(tasks) \ hung :
               tasks[i].pc = "done" /\ tasks[i].runs = 1)

----------------------------------------------------------------------------
(* Properties of the commands and the lockfile *)

\* The command has gone past Lockfile::read
PastRead ==
    \/ pc \in {"plan", "preview", "confirm", "relocate", "pool", "running",
               "count"}
    \/ repositories # <<>> \/ pool # "none" \/ tasks # <<>> \/ walk.done
    \/ attempts # <<>>

\* C14: the lockfile is written by lock alone, while no element of a batch
\* is in the hands of a worker and before the walk; update and archive have
\* written it when they read it and when they go on to the batch or to the
\* walk; fetch, run, switch-and-pull and list never write it.
C14_LockfileWriteOrdering ==
    /\ [](written => cmd \in {"lock", "update", "archive"})
    /\ []((cmd \in {"update", "archive"} /\ (pc = "read" \/ PastRead))
              => written)
    /\ [](InProgress # {} => pc = "running")
    /\ [][(lockfile' # lockfile \/ (written' /\ ~written)) =>
             /\ pc = "fetching" /\ cmd \in {"lock", "update", "archive"}
             /\ ~PastRead /\ InProgress = {}
             /\ lockfile' = all_repositories(providers)]_vars

C14_Witness ==
    /\ cmd = "update" /\ run = 2
    /\ written /\ lockfile # start.lockfile
    /\ Invoked # {}

\* A source has returned an error
FetchFailed == \E i \in 1..Len(fetched) : fetched[i] = "err"

\* lock has returned the error of the configuration
ConfigFailed ==
    /\ cmd \in {"lock", "update", "archive"}
    /\ pc = "done" /\ exit = "err"
    /\ \A i \in 1..Len(fetched) : fetched[i] = "pending"

\* C19: when lock fails, on the configuration or on the error of a
\* source, the lockfile is not written and holds what it held before the
\* run, and the command (lock, update or archive) ends with the error
\* without reading the lockfile, cloning, walking or relocating: the tree is
\* as the run found it.
C19_FailedLockChangesNothing ==
    (FetchFailed \/ ConfigFailed) =>
        /\ ~written /\ lockfile = start.lockfile
        /\ pc \in {"fetching", "done"}
        /\ pc = "done" => exit = "err"
        /\ repositories = <<>> /\ batch = <<>>
        /\ pool = "none" /\ tasks = <<>>
        /\ ~walk.done /\ ~planned /\ attempts = <<>>
        /\ dirs = start.dirs /\ vcs = start.vcs /\ files = start.files

C19_Witness ==
    /\ cmd = "update" /\ run = 2
    /\ FetchFailed /\ pc = "done" /\ exit = "err"
    /\ history[1].exit = "ok"
    /\ lockfile # <<>>
    /\ \E i \in 1..Len(lockfile) : ~ExistsIn(lockfile[i], vcs)

----------------------------------------------------------------------------
(* Properties of lock *)

LockWritten == cmd = "lock" /\ pc = "done" /\ exit = "ok"

\* The rearrangements of sequence s
Reorderings(s) ==
    {[i \in 1..Len(s) |-> s[f[i]]] :
        f \in {g \in [1..Len(s) -> 1..Len(s)] :
                  \A i, j \in 1..Len(s) : g[i] = g[j] => i = j}}

\* C5 as claimed: what lock writes has pairwise distinct full_paths, is
\* sorted ascending by full_path, and is the same sequence for every
\* ordering of what the sources returned.
C5_LockDedup ==
    LockWritten =>
        /\ \A i, j \in 1..Len(lockfile) :
              i < j => PathLess(lockfile[i].full_path, lockfile[j].full_path)
        /\ \A q \in Reorderings(flatten(providers)) :
              all_repositories(<<q>>) = lockfile

====
